---- MODULE Spec2Model ----
(***************************************************************************)
(* mssh: run() of src/run.rs fans a command list out to the hosts of the   *)
(* request, one spawned unit per host behind buffer_unordered(10), and     *)
(* main() of src/main.rs orders and renders what run() returns.            *)
(*                                                                         *)
(* Strings that are compared (host names) are sequences of byte values.    *)
(* The transport (russh) is the environment: connect, call and close each  *)
(* answer "ok", "err" (an Err result) or "panic" (a fault inside the       *)
(* spawned task, which fails its join). A unit records the answers it got  *)
(* in `ops`. `transport` is Free when every answer is drawn when the call  *)
(* is made, and a script when every host of the request answers alike.     *)
(***************************************************************************)
EXTENDS Integers, Sequences, FiniteSets, Bags, TLC

\* ---------------------------------------------------------------- bounds
\* longest host list of the small requests
MaxHosts == 2
\* most hosts and commands together in a small request
MaxLoad == 4
\* hosts beyond the concurrency cap in the large requests
MaxExtra == 1
\* longest command list of the large requests
MaxCapCmds == 1

\* ------------------------------------------------------ program constants
\* .buffer_unordered(10)
Cap == 10
\* default port of parse_host_login
DefaultPort == 22

None == "None"

\* an Option<T> whose value is inspected: no element, or the one element
NoneOf == <<>>
Some(x) == <<x>>

\* no parse_host_login, no Session::call under way
Idle == [pc |-> "idle"]

\* a result not there yet: of a unit still running, of run() still polling
Pending == [kind |-> "Pending"]

VARIABLES
    hosts,          \* args.hosts, the items of stream::iter
    commands,       \* args.commands
    transport,      \* Free, or the script every remote side follows
    next,           \* position in hosts of the next item the stream yields
    sshs,           \* the in-progress queue of buffer_unordered: a bag of units
    joined,         \* history: the units whose JoinHandle has been yielded
    ret,            \* run()'s ret: Vec<Responses>
    run_result,     \* Pending while run() is running, then what it returned
    all_responses,  \* main()'s all_responses after the sort
    rendered,       \* what main() wrote: one record per outcome
    exit_status,    \* None while the process runs, then "success" or "failure"
    cli,            \* one parse_host_login: its argument, USER, its result
    chan            \* one Session::call: its arguments, its locals, its result

\* the variables of run() and main()
run_vars == <<hosts, commands, transport, next, sshs, joined, ret, run_result,
              all_responses, rendered, exit_status>>

vars == <<cli, chan, hosts, commands, transport, next, sshs, joined, ret,
          run_result, all_responses, rendered, exit_status>>

\* ------------------------------------------------------------ data model

\* RemoteHost of cli.rs; host is a string, as the bytes it is compared by
RemoteHost(host, port) ==
    [host |-> host, sudo |-> None, username |-> "user", port |-> port]

\* the hosts requests are drawn from: "a", "a" on another port, and "ab"
RemoteHosts ==
    { RemoteHost(<<97>>, DefaultPort),
      RemoteHost(<<97>>, 2222),
      RemoteHost(<<97, 98>>, DefaultPort) }

\* RunResult<Response> values of one host
OkResponse(i) == [tag |-> "Ok", index |-> i]
SshRunError(i) == [tag |-> "SshRunError", index |-> i]
SshCloseError == [tag |-> "SshCloseError"]
SshConnectionError == [tag |-> "SshConnectionError"]
GeneralError == [tag |-> "GeneralError"]

\* struct Responses
Responses(remote_host, responses) ==
    [remote_host |-> remote_host, responses |-> responses]

\* the transport answers as it likes
Free == [connect |-> "any", failAt |-> 0, failHow |-> "any", close |-> "any"]

\* A script for a list of n commands: connect's answer, the index of the
\* first command whose call does not succeed (n: every call succeeds) with
\* how it ends, and close's answer.
Transports(n) ==
    { [connect |-> "err", failAt |-> n, failHow |-> "err", close |-> "ok"],
      [connect |-> "panic", failAt |-> n, failHow |-> "err", close |-> "ok"] }
    \cup { [connect |-> "ok", failAt |-> k, failHow |-> "err", close |-> c] :
             k \in 0..n, c \in {"ok", "err", "panic"} }
    \cup { [connect |-> "ok", failAt |-> k, failHow |-> "panic", close |-> "ok"] :
             k \in 0..(n - 1) }

\* the command lists drawn: n commands, named by their position
CommandList(n) == [i \in 1..n |-> i - 1]

\* --------------------------------------------------------------- sorting

\* the comparator of responses.sort_by in run(): TRUE iff it answers Less
ResponseIndex(r) ==
    IF r.tag \in {"Ok", "SshRunError"} THEN <<r.index>> ELSE <<>>

\* the comparator had it compared the two Option<usize>: None is least
ResponseLessOption(a, b) ==
    \/ ResponseIndex(a) = <<>> /\ ResponseIndex(b) # <<>>
    \/ /\ ResponseIndex(a) # <<>>
       /\ ResponseIndex(b) # <<>>
       /\ ResponseIndex(a)[1] < ResponseIndex(b)[1]

ResponseLess(a, b) ==
    /\ ResponseIndex(a) # <<>>
    /\ ResponseIndex(b) # <<>>
    /\ ResponseIndex(a)[1] < ResponseIndex(b)[1]

\* String::cmp answers Less: lexicographic on the bytes
RECURSIVE StrLess(_, _)
StrLess(s, t) ==
    IF t = <<>> THEN FALSE
    ELSE IF s = <<>> THEN TRUE
    ELSE IF Head(s) # Head(t) THEN Head(s) < Head(t)
    ELSE StrLess(Tail(s), Tail(t))

\* HostLess that goes on to compare the ports of equal host names
HostLessThenPort(a, b) ==
    \/ StrLess(a.remote_host.host, b.remote_host.host)
    \/ /\ a.remote_host.host = b.remote_host.host
       /\ a.remote_host.port < b.remote_host.port

\* HostLess that answers Less for equal host names too
HostLessOrEqual(a, b) == ~StrLess(b.remote_host.host, a.remote_host.host)

\* HostLess with the operands exchanged
HostLessReversed(a, b) == StrLess(b.remote_host.host, a.remote_host.host)

\* the comparator of all_responses.sort_by in main()
HostLess(a, b) == StrLess(a.remote_host.host, b.remote_host.host)

\* slice::sort_by on a short slice is a stable insertion sort: element i is
\* moved left past every element it is less than, stopping at the first
\* element it is not less than.
RECURSIVE InsertResponse(_, _)
InsertResponse(sorted, x) ==
    IF sorted = <<>> THEN <<x>>
    ELSE LET last == sorted[Len(sorted)]
         IN IF ResponseLess(x, last)
            THEN Append(InsertResponse(SubSeq(sorted, 1, Len(sorted) - 1), x), last)
            ELSE Append(sorted, x)

RECURSIVE SortResponsesFrom(_, _)
SortResponsesFrom(sorted, rest) ==
    IF rest = <<>> THEN sorted
    ELSE SortResponsesFrom(InsertResponse(sorted, Head(rest)), Tail(rest))

SortResponses(responses) == SortResponsesFrom(<<>>, responses)

RECURSIVE InsertHost(_, _)
InsertHost(sorted, x) ==
    IF sorted = <<>> THEN <<x>>
    ELSE LET last == sorted[Len(sorted)]
         IN IF HostLess(x, last)
            THEN Append(InsertHost(SubSeq(sorted, 1, Len(sorted) - 1), x), last)
            ELSE Append(sorted, x)

RECURSIVE SortHostsFrom(_, _)
SortHostsFrom(sorted, rest) ==
    IF rest = <<>> THEN sorted
    ELSE SortHostsFrom(InsertHost(sorted, Head(rest)), Tail(rest))

SortHosts(rs) == SortHostsFrom(<<>>, rs)

\* ------------------------------------------------------------- rendering

\* From<&Responses> for Vec<CompactResponse>: one record per outcome
Compact(rs) ==
    [k \in 1..Len(rs.responses) |->
        [remote_host |-> rs.remote_host, success |-> rs.responses[k].tag = "Ok"]]

RECURSIVE Render(_)
Render(rss) ==
    IF rss = <<>> THEN <<>> ELSE Compact(Head(rss)) \o Render(Tail(rss))

\* ------------------------------------------------------------------ init

\* the unit tokio::spawn starts for one host: it has yet to connect
NewUnit(remote_host) ==
    [remote_host |-> remote_host, pc |-> "connect", i |-> 0,
     responses |-> <<>>, output |-> Pending, ops |-> <<>>]

InitRest ==
    /\ next = 1
    /\ sshs = EmptyBag
    /\ joined = EmptyBag
    /\ ret = <<>>
    /\ run_result = Pending
    /\ all_responses = <<>>
    /\ rendered = <<>>
    /\ exit_status = None
    /\ cli = Idle
    /\ chan = Idle

\* small requests, a free transport: every list of m hosts, up to MaxHosts,
\* with every list of commands that has up to MaxLoad - m of them
Init ==
    /\ \E m \in 1..MaxHosts :
          \E n \in 0..(MaxLoad - m) :
             /\ commands = CommandList(n)
             /\ hosts \in [1..m -> RemoteHosts]
    /\ transport = Free
    /\ InitRest

\* large requests: around and above the cap, every host answering by the
\* same script
InitCap ==
    /\ \E n \in 0..MaxCapCmds, m \in (Cap - 1)..(Cap + MaxExtra) :
          /\ commands = CommandList(n)
          /\ hosts \in [1..m -> RemoteHosts]
          /\ \A i \in 1..m : hosts[i] = hosts[1]
          /\ transport \in Transports(n)
    /\ InitRest

\* --------------------------------------------------------------- actions

Running == exit_status = None
Polling == run_result = Pending

\* buffer_unordered's poll_next pulls the next host from the stream while
\* fewer than Cap futures are in progress; the map closure spawns its unit.
\* CanSpawn that fills the queue once and never again
CanSpawnFirstFill == next <= Len(hosts) /\ next <= Cap

CanSpawnOneMore == next <= Len(hosts) /\ BagCardinality(sshs) <= Cap

CanSpawn == next <= Len(hosts) /\ BagCardinality(sshs) < Cap

Spawn ==
    /\ Polling
    /\ CanSpawn
    /\ sshs' = sshs (+) SetToBag({NewUnit(hosts[next])})
    /\ next' = next + 1
    /\ UNCHANGED <<cli, chan, hosts, commands, transport, joined, ret, run_result,
                   all_responses, rendered, exit_status>>

\* the answers the transport can give to a unit's next call
Answers(u) ==
    IF transport = Free THEN {"ok", "err", "panic"}
    ELSE CASE u.pc = "connect" -> {transport.connect}
           [] u.pc = "call" ->
                {IF u.i = transport.failAt THEN transport.failHow ELSE "ok"}
           [] OTHER -> {transport.close}

\* a spawned unit takes the step `to`; a unit runs on the runtime whether or
\* not run() still holds its JoinHandle, until the process exits
Step(u, to) ==
    /\ Running
    /\ BagIn(u, sshs)
    /\ sshs' = (sshs (-) SetToBag({u})) (+) SetToBag({to})
    /\ UNCHANGED <<cli, chan, hosts, commands, transport, next, joined, ret, run_result,
                   all_responses, rendered, exit_status>>

Finished(u, output) ==
    [u EXCEPT !.pc = "finished", !.output = output]

Op(name, answer) == [op |-> name, answer |-> answer]

\* AfterConnect that goes on to close the session after a failed connect
AfterConnectCloseOnErr(u, answer) ==
    LET v == [u EXCEPT !.ops = Append(@, Op("connect", answer))]
    IN CASE answer = "ok" ->
              [v EXCEPT !.pc = IF Len(commands) = 0 THEN "close" ELSE "call"]
         [] answer = "err" ->
              [v EXCEPT !.responses = <<SshConnectionError>>, !.pc = "close"]
         [] OTHER -> Finished(v, [kind |-> "JoinError"])

\* ssh::connect(&remote_host, &key_pair).await
AfterConnect(u, answer) ==
    LET v == [u EXCEPT !.ops = Append(@, Op("connect", answer))]
    IN CASE answer = "ok" ->
              [v EXCEPT !.pc = IF Len(commands) = 0 THEN "close" ELSE "call"]
         [] answer = "err" ->
              Finished(v, [kind |-> "Err", error |-> SshConnectionError])
         [] OTHER -> Finished(v, [kind |-> "JoinError"])

Connect(u) ==
    /\ u.pc = "connect"
    /\ \E answer \in Answers(u) : Step(u, AfterConnect(u, answer))

\* AfterCall whose Err arm returns the responses without closing
AfterCallReturnOnErr(u, answer) ==
    LET v == [u EXCEPT !.ops = Append(@, Op("call", answer))]
    IN CASE answer = "ok" ->
              [v EXCEPT !.responses = Append(@, OkResponse(u.i)),
                        !.i = u.i + 1,
                        !.pc = IF u.i + 1 < Len(commands) THEN "call" ELSE "close"]
         [] answer = "err" ->
              Finished([v EXCEPT !.responses = Append(@, SshRunError(u.i))],
                       [kind |-> "Ok",
                        responses |-> Append(u.responses, SshRunError(u.i))])
         [] OTHER -> Finished(v, [kind |-> "JoinError"])

\* AfterCall whose Err arm tries the same command again
AfterCallRetry(u, answer) ==
    LET v == [u EXCEPT !.ops = Append(@, Op("call", answer))]
    IN CASE answer = "ok" ->
              [v EXCEPT !.responses = Append(@, OkResponse(u.i)),
                        !.i = u.i + 1,
                        !.pc = IF u.i + 1 < Len(commands) THEN "call" ELSE "close"]
         [] answer = "err" ->
              IF Len(u.ops) <= Len(commands)
              THEN v
              ELSE [v EXCEPT !.responses = Append(@, SshRunError(u.i)),
                             !.pc = "close"]
         [] OTHER -> Finished(v, [kind |-> "JoinError"])

\* AfterCall without the break of the Err arm
AfterCallNoBreak(u, answer) ==
    LET v == [u EXCEPT !.ops = Append(@, Op("call", answer))]
        more == IF u.i + 1 < Len(commands) THEN "call" ELSE "close"
    IN CASE answer = "ok" ->
              [v EXCEPT !.responses = Append(@, OkResponse(u.i)),
                        !.i = u.i + 1, !.pc = more]
         [] answer = "err" ->
              [v EXCEPT !.responses = Append(@, SshRunError(u.i)),
                        !.i = u.i + 1, !.pc = more]
         [] OTHER -> Finished(v, [kind |-> "JoinError"])

\* one pass of the for loop: ssh.call(command, ..).await and its match
AfterCall(u, answer) ==
    LET v == [u EXCEPT !.ops = Append(@, Op("call", answer))]
    IN CASE answer = "ok" ->
              [v EXCEPT !.responses = Append(@, OkResponse(u.i)),
                        !.i = u.i + 1,
                        !.pc = IF u.i + 1 < Len(commands) THEN "call" ELSE "close"]
         [] answer = "err" ->
              [v EXCEPT !.responses = Append(@, SshRunError(u.i)),
                        !.pc = "close"]
         [] OTHER -> Finished(v, [kind |-> "JoinError"])

Call(u) ==
    /\ u.pc = "call"
    /\ \E answer \in Answers(u) : Step(u, AfterCall(u, answer))

\* ssh.close().await and the unit's return value
AfterClose(u, answer) ==
    LET v == [u EXCEPT !.ops = Append(@, Op("close", answer))]
    IN CASE answer = "ok" ->
              Finished(v, [kind |-> "Ok", responses |-> u.responses])
         [] answer = "err" ->
              Finished([v EXCEPT !.responses = Append(@, SshCloseError)],
                       [kind |-> "Ok",
                        responses |-> Append(u.responses, SshCloseError)])
         [] OTHER -> Finished(v, [kind |-> "JoinError"])

Close(u) ==
    /\ u.pc = "close"
    /\ \E answer \in Answers(u) : Step(u, AfterClose(u, answer))

\* Collected that gives up on a host once an error of another host is in ret
CollectedUntilError(u) ==
    IF \E e \in 1..Len(ret) :
          \E k \in 1..Len(ret[e].responses) : ret[e].responses[k].tag # "Ok"
    THEN <<Responses(u.remote_host, <<>>)>>
    ELSE CASE u.output.kind = "Ok" ->
                <<Responses(u.remote_host, SortResponses(u.output.responses))>>
           [] u.output.kind = "Err" ->
                <<Responses(u.remote_host, <<u.output.error>>)>>
           [] OTHER -> <<>>

\* Collected with a failed join put in the host's slot as a GeneralError
CollectedFaultInSlot(u) ==
    CASE u.output.kind = "Ok" ->
           <<Responses(u.remote_host, SortResponses(u.output.responses))>>
      [] u.output.kind = "Err" ->
           <<Responses(u.remote_host, <<u.output.error>>)>>
      [] OTHER -> <<Responses(u.remote_host, <<GeneralError>>)>>

\* Collected without the arm of a failed connection
CollectedOkOnly(u) ==
    IF u.output.kind = "Ok"
    THEN <<Responses(u.remote_host, SortResponses(u.output.responses))>>
    ELSE <<>>

\* the body of `while let Some(res) = sshs.next().await` for one yielded
\* unit: what is pushed to ret, or <<>> when run() returns an error instead
Collected(u) ==
    CASE u.output.kind = "Ok" ->
           <<Responses(u.remote_host, SortResponses(u.output.responses))>>
      [] u.output.kind = "Err" ->
           <<Responses(u.remote_host, <<u.output.error>>)>>
      [] OTHER -> <<>>

\* ReturnedOn with a failed join skipped
ReturnedOnSkipFault(u) == Pending

\* what run() returns when it collects u, Pending when the loop goes on
ReturnedOn(u) ==
    IF u.output.kind = "JoinError"
    THEN [kind |-> "Err", error |-> GeneralError]
    ELSE Pending

\* poll_next yields a finished unit once it can pull no further host
Collect(u) ==
    /\ Polling
    /\ ~CanSpawn
    /\ BagIn(u, sshs)
    /\ u.pc = "finished"
    /\ sshs' = sshs (-) SetToBag({u})
    /\ joined' = joined (+) SetToBag({u})
    /\ ret' = ret \o Collected(u)
    /\ run_result' = ReturnedOn(u)
    /\ UNCHANGED <<cli, chan, hosts, commands, transport, next, all_responses, rendered,
                   exit_status>>

\* RunReturn as soon as the stream is exhausted
RunReturnEarly ==
    /\ Polling
    /\ next > Len(hosts)
    /\ run_result' = [kind |-> "Ok", value |-> ret]
    /\ UNCHANGED <<cli, chan, hosts, commands, transport, next, sshs, joined, ret,
                   all_responses, rendered, exit_status>>

\* the stream is exhausted and nothing is in progress: Ok(ret)
RunReturn ==
    /\ Polling
    /\ next > Len(hosts)
    /\ sshs = EmptyBag
    /\ run_result' = [kind |-> "Ok", value |-> ret]
    /\ UNCHANGED <<cli, chan, hosts, commands, transport, next, sshs, joined, ret,
                   all_responses, rendered, exit_status>>

\* MainSorted without the sort
MainUnsorted(result) == IF result.kind = "Ok" THEN result.value ELSE <<>>

\* main() after run(args).await: `?`, the sort by host, the rendering
MainSorted(result) == IF result.kind = "Ok" THEN SortHosts(result.value) ELSE <<>>

MainExit(result) == IF result.kind = "Ok" THEN "success" ELSE "failure"

Main ==
    /\ Running
    /\ run_result # Pending
    /\ all_responses' = MainSorted(run_result)
    /\ rendered' = Render(MainSorted(run_result))
    /\ exit_status' = MainExit(run_result)
    /\ UNCHANGED <<cli, chan, hosts, commands, transport, next, sshs, joined, ret,
                   run_result>>

Units == BagToSet(sshs)

Next ==
    \/ Spawn
    \/ \E u \in Units : Connect(u)
    \/ \E u \in Units : Call(u)
    \/ \E u \in Units : Close(u)
    \/ \E u \in Units : Collect(u)
    \/ RunReturn
    \/ Main

Spec == Init /\ [][Next]_vars

SpecCap == InitCap /\ [][Next]_vars

\* every call of the transport returns Ok or Err: no task is lost to a fault
EveryCallReturns ==
    /\ transport.connect # "panic"
    /\ transport.failHow # "panic"
    /\ transport.close # "panic"

\* the large requests for the host "a" with a transport every call of
\* which returns
InitCapLive ==
    /\ InitCap
    /\ EveryCallReturns
    /\ hosts[1] = RemoteHost(<<97>>, DefaultPort)

\* those requests on a runtime that keeps polling run() and every spawned
\* task
SpecCapLive ==
    /\ InitCapLive
    /\ [][Next]_vars
    /\ WF_vars(Spawn)
    /\ WF_vars(\E u \in Units : Connect(u))
    /\ WF_vars(\E u \in Units : Call(u))
    /\ WF_vars(\E u \in Units : Close(u))
    /\ WF_vars(\E u \in Units : Collect(u))
    /\ WF_vars(RunReturn)

\* ------------------------------------------------------ parse_host_login

\* the longest host spec parsed
MaxLogin == 7

\* '@' of split('@') and ':' of split(':')
At == 64
Colon == 58
\* the largest u16, the type of RemoteHost.port
MaxPort == 65535

\* the bytes host specs are drawn from: 'u', '@', ':' and the digit '9'
LoginBytes == {117, At, Colon, 57}

\* every host spec of up to MaxLogin bytes
Logins == UNION { [1..n -> LoginBytes] : n \in 0..MaxLogin }

\* std::env::var("USER"): not set, or "e"
EnvUsers == {NoneOf, Some(<<101>>)}

\* str::split(sep): the segments between the separators, one more than
\* there are separators
RECURSIVE Split(_, _)
Split(s, sep) ==
    IF s = <<>> THEN << <<>> >>
    ELSE LET rest == Split(Tail(s), sep)
         IN IF Head(s) = sep
            THEN << <<>> >> \o rest
            ELSE << <<Head(s)>> \o Head(rest) >> \o Tail(rest)

\* parse_users without the pop
ParseUsersKeepLast(s) == Split(s, At)

\* parse_users: the '@' segments but the last
ParseUsers(s) ==
    LET split == Split(s, At)
    IN SubSeq(split, 1, Len(split) - 1)

\* u16::from_str on a text without a sign: decimal digits, at least one,
\* the value within u16
RECURSIVE ParseDigits(_, _)
ParseDigits(s, acc) ==
    IF s = <<>> THEN Some(acc)
    ELSE IF Head(s) \notin 48..57 THEN NoneOf
    ELSE IF acc * 10 + (Head(s) - 48) > MaxPort THEN NoneOf
    ELSE ParseDigits(Tail(s), acc * 10 + (Head(s) - 48))

ParseU16(s) == IF s = <<>> THEN NoneOf ELSE ParseDigits(s, 0)

ParseErr(error) == [kind |-> "Err", error |-> error]

\* parse_host_login; the RemoteHost it builds keeps sudo as an Option
ParseHostLogin(host_login, env_user) ==
    LET users == ParseUsers(host_login)
        split == Split(host_login, At)
        host_string == split[Len(split)]
        parts == Split(host_string, Colon)
        username == IF users = <<>> THEN env_user[1] ELSE users[1]
        sudo == IF Len(users) = 2 THEN Some(users[2]) ELSE NoneOf
        port == IF Len(parts) = 2 THEN ParseU16(parts[2]) ELSE Some(DefaultPort)
    IN IF Len(users) > 2 THEN ParseErr("Invalid user name")
       ELSE IF users = <<>> /\ env_user = NoneOf THEN ParseErr("VarError")
       ELSE IF Len(parts) > 2 THEN ParseErr("Invalid host")
       ELSE IF port = NoneOf THEN ParseErr("ParseIntError")
       ELSE IF parts[1] = <<>> THEN ParseErr("Invalid host")
       ELSE [kind |-> "Ok",
             value |-> [host |-> parts[1], sudo |-> sudo,
                        username |-> username, port |-> port[1]]]

\* the state in which neither run() nor main() has anything to do
NoRun ==
    /\ hosts = <<>>
    /\ commands = <<>>
    /\ transport = Free
    /\ next = 1
    /\ sshs = EmptyBag
    /\ joined = EmptyBag
    /\ ret = <<>>
    /\ run_result = Pending
    /\ all_responses = <<>>
    /\ rendered = <<>>
    /\ exit_status = None

InitParse ==
    /\ \E host_login \in Logins, env_user \in EnvUsers :
          cli = [pc |-> "parse", host_login |-> host_login,
                 env_user |-> env_user, parsed |-> Pending]
    /\ chan = Idle
    /\ NoRun

Parse ==
    /\ cli.pc = "parse"
    /\ cli' = [cli EXCEPT !.pc = "parsed",
                          !.parsed = ParseHostLogin(cli.host_login, cli.env_user)]
    /\ UNCHANGED <<chan, run_vars>>

SpecParse == InitParse /\ [][Parse]_vars

\* --------------------------------------------------------- Session::call

\* most channel messages of one call
MaxMsgs == 3

\* the chunks the remote side sends: "x", " y ", " " and the byte 255
Chunks == { <<120>>, <<32, 121, 32>>, <<32>>, <<255>> }

\* the ChannelMsg values channel.wait() yields
Data(data) == [type |-> "Data", data |-> data]
ExtendedData(data) == [type |-> "ExtendedData", data |-> data]
ExitStatus(status) == [type |-> "ExitStatus", exit_status |-> status]
Eof == [type |-> "Eof"]

ChannelMsgs ==
    { Data(d) : d \in Chunks } \cup { ExtendedData(d) : d \in Chunks }
    \cup { ExitStatus(n) : n \in {0, 1} } \cup { Eof }

\* std::str::from_utf8 succeeds; of the bytes drawn, all below 128 are
\* one-byte characters and 255 occurs in no UTF-8 text
Utf8(data) == \A k \in 1..Len(data) : data[k] < 128

\* char::is_whitespace on the one-byte characters
IsWhitespace(b) == b = 32 \/ b \in 9..13

RECURSIVE TrimStart(_)
TrimStart(s) ==
    IF s # <<>> /\ IsWhitespace(Head(s)) THEN TrimStart(Tail(s)) ELSE s

RECURSIVE TrimEnd(_)
TrimEnd(s) ==
    IF s # <<>> /\ IsWhitespace(s[Len(s)])
    THEN TrimEnd(SubSeq(s, 1, Len(s) - 1))
    ELSE s

\* str::trim
Trim(s) == TrimEnd(TrimStart(s))

\* the match on (sudo, sudo_password) and its format! calls: the command
\* handed to channel.exec, as the pieces format! joins
Dispatch(command, sudo, sudo_password) ==
    IF sudo # NoneOf /\ sudo_password # NoneOf
    THEN <<"echo ", sudo_password[1], " | sudo -u ", sudo[1], " -S  ", command>>
    ELSE IF sudo # NoneOf
    THEN <<"sudo -u ", sudo[1], " ", command>>
    ELSE <<command>>

\* the sudo_password argument of the call: run() hands ssh.call the command
\* and remote_host.sudo and nothing else; a caller of Session::call itself
\* hands over its password
PasswordPassed(c) == IF c.via = "run" THEN NoneOf ELSE c.supplied

\* a call about to run: who calls, the command, the host's sudo user and
\* the escalation password the caller holds
NewCall(via, command, sudo, supplied) ==
    [pc |-> "exec", via |-> via, command |-> command, sudo |-> sudo,
     supplied |-> supplied, exec |-> NoneOf, msgs |-> <<>>,
     out |-> <<>>, err |-> <<>>, code |-> NoneOf, result |-> Pending]

InitCall ==
    /\ \E via \in {"run", "call"}, sudo \in {NoneOf, Some("root")},
          supplied \in {NoneOf, Some("secret")} :
          chan = NewCall(via, "ls", sudo, supplied)
    /\ cli = Idle
    /\ NoRun

\* channel_open_session and channel.exec, each followed by `?`
Exec ==
    /\ chan.pc = "exec"
    /\ \E answer \in {"ok", "err"} :
          chan' = [chan EXCEPT
                     !.exec = Some(Dispatch(chan.command, chan.sudo,
                                            PasswordPassed(chan))),
                     !.pc = IF answer = "ok" THEN "wait" ELSE "returned",
                     !.result = IF answer = "ok" THEN Pending
                                ELSE [kind |-> "Err", error |-> "exec"]]
    /\ UNCHANGED <<cli, run_vars>>

CallErr(c, error) ==
    [c EXCEPT !.pc = "returned", !.result = [kind |-> "Err", error |-> error]]

\* AfterMessage whose ExitStatus arm keeps the first exit status
AfterMessageFirstCode(c, msg) ==
    CASE msg.type = "Data" ->
            IF Utf8(msg.data)
            THEN [c EXCEPT !.out = @ \o Trim(msg.data)]
            ELSE CallErr(c, "Utf8Error")
      [] msg.type = "ExtendedData" ->
            IF Utf8(msg.data)
            THEN [c EXCEPT !.err = @ \o Trim(msg.data)]
            ELSE CallErr(c, "Utf8Error")
      [] msg.type = "ExitStatus" ->
            IF c.code = NoneOf
            THEN [c EXCEPT !.code = Some(msg.exit_status)]
            ELSE c
      [] OTHER -> c

\* the match on the message in the loop
AfterMessage(c, msg) ==
    CASE msg.type = "Data" ->
            IF Utf8(msg.data)
            THEN [c EXCEPT !.out = @ \o Trim(msg.data)]
            ELSE CallErr(c, "Utf8Error")
      [] msg.type = "ExtendedData" ->
            IF Utf8(msg.data)
            THEN [c EXCEPT !.err = @ \o Trim(msg.data)]
            ELSE CallErr(c, "Utf8Error")
      [] msg.type = "ExitStatus" -> [c EXCEPT !.code = Some(msg.exit_status)]
      [] OTHER -> c

\* channel.wait() yields a message
Wait ==
    /\ chan.pc = "wait"
    /\ Len(chan.msgs) < MaxMsgs
    /\ \E msg \in ChannelMsgs :
          chan' = AfterMessage([chan EXCEPT !.msgs = Append(@, msg)], msg)
    /\ UNCHANGED <<cli, run_vars>>

\* channel.wait() yields None: break, then code.ok_or_else(..)? and Ok(..)
Closed ==
    /\ chan.pc = "wait"
    /\ chan' = IF chan.code = NoneOf
               THEN CallErr(chan, "No exit code")
               ELSE [chan EXCEPT !.pc = "returned",
                                 !.result = [kind |-> "Ok", out |-> chan.out,
                                             err |-> chan.err,
                                             code |-> chan.code]]
    /\ UNCHANGED <<cli, run_vars>>

NextCall == Exec \/ Wait \/ Closed

SpecCall == InitCall /\ [][NextCall]_vars

\* ----------------------------------------------------------------------
\* Properties
\* ----------------------------------------------------------------------

\* every unit ever spawned: still in progress, or yielded to run()'s loop
AllUnits == BagToSet(sshs) \cup BagToSet(joined)
JoinedUnits == BagToSet(joined)

RECURSIVE SeqToBag(_)
SeqToBag(seq) ==
    IF seq = <<>> THEN EmptyBag
    ELSE SetToBag({Head(seq)}) (+) SeqToBag(Tail(seq))

\* the hosts of a sequence of Responses, in its order
HostsOf(rss) == [k \in 1..Len(rss) |-> rss[k].remote_host]

\* the answers a unit got to its calls, in order
CallAnswers(u) ==
    LET calls == SelectSeq(u.ops, LAMBDA o : o.op = "call")
    IN [k \in 1..Len(calls) |-> calls[k].answer]

OpNames(u) == [k \in 1..Len(u.ops) |-> u.ops[k].op]

\* the outcomes of a sequence that carry a command index
Indexed(responses) ==
    SelectSeq(responses, LAMBDA r : r.tag \in {"Ok", "SshRunError"})

\* the entry of run()'s ret for the joined unit u is there
InRet(entry) == \E k \in 1..Len(ret) : ret[k] = entry

\* C1: in every reachable state, for requests of at most Cap hosts and of
\* more than Cap hosts, the units spawned and not yet collected by the
\* result loop number at most Cap (10).
C1_AtMostCapActive ==
    /\ BagCardinality(sshs) <= Cap
    /\ BagCardinality(sshs) + BagCardinality(joined) = next - 1

\* more than Cap hosts requested, Cap units in progress, one host waiting
C1_Witness ==
    /\ Len(hosts) > Cap
    /\ BagCardinality(sshs) = Cap
    /\ next <= Len(hosts)
    /\ \E u \in BagToSet(sshs) : u.pc = "finished"

\* C2: whenever run() returns Ok, the sequence holds exactly one entry per
\* requested host: as many entries as hosts, and the same hosts as often,
\* whatever failed, also when every connection failed.
C2_OneOutcomePerHost ==
    run_result.kind = "Ok" =>
        /\ Len(run_result.value) = Len(hosts)
        /\ SeqToBag(HostsOf(run_result.value)) = SeqToBag(hosts)

\* two hosts requested, both connections failed, run() returned
C2_Witness ==
    /\ run_result.kind = "Ok"
    /\ Len(hosts) = 2
    /\ \A k \in 1..Len(run_result.value) :
          run_result.value[k].responses = <<SshConnectionError>>

\* the outcomes of a host whose commands 0..K-1 succeeded and whose
\* command K failed
UpToFailure(K) ==
    [j \in 1..(K + 1) |-> IF j <= K THEN OkResponse(j - 1) ELSE SshRunError(K)]

\* C3: when command K is the first to fail on a connected host, no command
\* after K is executed (the failing call is the unit's last call), and the
\* host's outcomes that carry an index are Ok for 0..K-1 and the run error
\* tagged K, one each, in the unit and in the entry run() keeps for it.
C3_StopOnFirstError ==
    \A u \in AllUnits :
        \A k \in 1..Len(CallAnswers(u)) :
            CallAnswers(u)[k] = "err" =>
                /\ Len(CallAnswers(u)) = k
                /\ \A j \in 1..(k - 1) : CallAnswers(u)[j] = "ok"
                /\ Indexed(u.responses) = UpToFailure(k - 1)
                /\ (u \in JoinedUnits /\ u.output.kind = "Ok") =>
                      \E e \in 1..Len(ret) :
                          /\ ret[e].remote_host = u.remote_host
                          /\ Indexed(ret[e].responses) = UpToFailure(k - 1)

\* three commands, command 1 failed, the unit was collected
C3_Witness ==
    /\ Len(commands) = 3
    /\ \E u \in JoinedUnits :
          /\ CallAnswers(u) = <<"ok", "err">>
          /\ InRet(Responses(u.remote_host, <<OkResponse(0), SshRunError(1)>>))

\* the unit connected, and no call of it ended in a fault of the task
Connected(u) == u.ops # <<>> /\ u.ops[1] = Op("connect", "ok")
NoPanic(u) == \A k \in 1..Len(u.ops) : u.ops[k].answer # "panic"
Closes(u) == Len(SelectSeq(u.ops, LAMBDA o : o.op = "close"))

\* C4: on a host whose connect succeeded, close is called at most once and
\* nothing is called after it; once the unit has returned, on each of its
\* paths (every command succeeded, a command failed and the rest were
\* skipped, no commands at all), close was called exactly once, as the last
\* call, after the last execute.
C4_CloseExactlyOnce ==
    \A u \in AllUnits :
        /\ Closes(u) <= 1
        /\ \A k \in 1..Len(u.ops) : u.ops[k].op = "close" => k = Len(u.ops)
        /\ Closes(u) = 1 => Connected(u)
        /\ (Connected(u) /\ u.pc = "finished" /\ u.output.kind # "JoinError") =>
              /\ Closes(u) = 1
              /\ u.ops[Len(u.ops)].op = "close"
        /\ (Connected(u) /\ u.pc # "finished") =>
              /\ Closes(u) = 0
              /\ u.pc \in {"call", "close"}

\* a command failed, the next one was skipped, and the unit closed and returned
C4_Witness ==
    /\ Len(commands) = 3
    /\ \E u \in AllUnits :
          /\ u.pc = "finished"
          /\ OpNames(u) = <<"connect", "call", "call", "close">>
          /\ CallAnswers(u) = <<"ok", "err">>

\* C5: a host whose connect failed gets neither execute nor close (connect
\* is its unit's only call), and its entry in run()'s ret holds exactly one
\* outcome, the connection error; no other entry holds a connection error.
C5_ConnectFailure ==
    /\ \A u \in AllUnits :
          (u.ops # <<>> /\ u.ops[1] = Op("connect", "err")) =>
              /\ Len(u.ops) = 1
              /\ u.pc = "finished"
              /\ u.output = [kind |-> "Err", error |-> SshConnectionError]
              /\ u \in JoinedUnits =>
                    InRet(Responses(u.remote_host, <<SshConnectionError>>))
    /\ \A e \in 1..Len(ret) :
          (\E k \in 1..Len(ret[e].responses) :
               ret[e].responses[k] = SshConnectionError) =>
              /\ ret[e].responses = <<SshConnectionError>>
              /\ \E u \in JoinedUnits :
                    /\ u.remote_host = ret[e].remote_host
                    /\ u.ops = <<Op("connect", "err")>>

\* a connection failed and its unit was collected, with commands to run
C5_Witness ==
    /\ Len(commands) > 0
    /\ \E u \in JoinedUnits :
          /\ u.ops = <<Op("connect", "err")>>
          /\ InRet(Responses(u.remote_host, <<SshConnectionError>>))

\* the outcomes of the commands of a unit: what its calls pushed
RECURSIVE CommandOutcomes(_, _)
CommandOutcomes(answers, i) ==
    IF answers = <<>> THEN <<>>
    ELSE IF Head(answers) = "ok"
         THEN <<OkResponse(i)>> \o CommandOutcomes(Tail(answers), i + 1)
         ELSE IF Head(answers) = "err" THEN <<SshRunError(i)>> ELSE <<>>

CloseFailed(u) == u.ops # <<>> /\ u.ops[Len(u.ops)] = Op("close", "err")

\* C6: when close fails on a connected host, whatever the commands did, the
\* unit returns its command outcomes in order followed by one close error,
\* and the entry run() keeps after the within-host sort is that same
\* sequence: the close error last, once, the command outcomes before it in
\* their order. An entry of ret holds a close error nowhere but last.
C6_CloseErrorLast ==
    /\ \A u \in AllUnits :
          CloseFailed(u) =>
              /\ u.output.kind = "Ok"
              /\ u.output.responses =
                    Append(CommandOutcomes(CallAnswers(u), 0), SshCloseError)
              /\ u \in JoinedUnits =>
                    InRet(Responses(u.remote_host,
                        Append(CommandOutcomes(CallAnswers(u), 0), SshCloseError)))
    /\ \A e \in 1..Len(ret) :
          \A k \in 1..Len(ret[e].responses) :
              ret[e].responses[k] = SshCloseError => k = Len(ret[e].responses)

\* three commands succeeded, close failed: four outcomes, the close error last
C6_Witness ==
    \E u \in JoinedUnits :
        /\ CallAnswers(u) = <<"ok", "ok", "ok">>
        /\ CloseFailed(u)
        /\ InRet(Responses(u.remote_host,
               <<OkResponse(0), OkResponse(1), OkResponse(2), SshCloseError>>))

\* C7: the sequence main() renders is sorted ascending by host name, and in
\* each of its entries the outcomes that carry an index have strictly
\* ascending indices.
C7_FinalOrder ==
    exit_status = "success" =>
        /\ Len(all_responses) = Len(hosts)
        /\ \A j, k \in 1..Len(all_responses) :
              j < k => ~StrLess(all_responses[k].remote_host.host,
                                all_responses[j].remote_host.host)
        /\ \A e \in 1..Len(all_responses) :
              LET ix == Indexed(all_responses[e].responses)
              IN \A j, k \in 1..Len(ix) : j < k => ix[j].index < ix[k].index

\* the units were collected in descending host order, one of them with two
\* command outcomes, and main() put them in ascending order
C7_Witness ==
    /\ exit_status = "success"
    /\ Len(ret) = 2
    /\ StrLess(ret[2].remote_host.host, ret[1].remote_host.host)
    /\ Len(Indexed(ret[1].responses)) = 2
    /\ all_responses = <<ret[2], ret[1]>>

\* the outcomes of a host as its transport's answers determine them
ExpectedResponses(u) ==
    IF u.ops[1].answer = "err" THEN <<SshConnectionError>>
    ELSE CommandOutcomes(CallAnswers(u), 0)
         \o (IF CloseFailed(u) THEN <<SshCloseError>> ELSE <<>>)

DistinctHostNames ==
    \A j, k \in 1..Len(hosts) : j # k => hosts[j].host # hosts[k].host

\* C8: when the host names of the request are pairwise distinct, the
\* sequence main() renders is determined by the hosts and what the
\* transport answered each of them, whatever the order the units finished
\* and were collected in: it is the one sequence, strictly ascending by
\* host name, of each host with the outcomes its answers give.
C8_OrderIndependent ==
    (exit_status = "success" /\ DistinctHostNames) =>
        /\ \A j, k \in 1..Len(all_responses) :
              j < k => StrLess(all_responses[j].remote_host.host,
                               all_responses[k].remote_host.host)
        /\ { all_responses[k] : k \in 1..Len(all_responses) } =
              { Responses(u.remote_host, ExpectedResponses(u)) : u \in JoinedUnits }
        /\ Len(all_responses) = Cardinality(JoinedUnits)

\* two hosts of distinct names were collected in the reverse of the order
\* they were requested in
C8_Witness ==
    /\ exit_status = "success"
    /\ DistinctHostNames
    /\ Len(hosts) = 2
    /\ HostsOf(ret) = <<hosts[2], hosts[1]>>
    /\ HostsOf(all_responses) = <<hosts[1], hosts[2]>>
    /\ ret[1].responses # ret[2].responses

JoinFailed(u) == u.output.kind = "JoinError"

\* C9 as stated: once the failed join of a unit has been collected, the
\* fault is a GeneralError in that host's slot of ret and run() has not
\* failed, so that it still returns the outcomes of every other host.
C9_FaultInHostSlot ==
    \A u \in JoinedUnits :
        JoinFailed(u) =>
            /\ InRet(Responses(u.remote_host, <<GeneralError>>))
            /\ run_result.kind # "Err"

\* C9 amended: run() aborts no sibling unit, but the fault goes in no
\* host's slot. Collecting the failed join makes GeneralError the result of
\* run() as a whole, in that very step, which pushes nothing to ret and
\* leaves every other unit in progress as it is; run() fails for no other
\* reason, and no entry of ret ever holds a GeneralError.
C9_FaultFailsRun ==
    /\ [](/\ \A u \in JoinedUnits :
               JoinFailed(u) => run_result = [kind |-> "Err", error |-> GeneralError]
          /\ run_result.kind = "Err" => \E u \in JoinedUnits : JoinFailed(u)
          /\ \A e \in 1..Len(ret) :
               \A k \in 1..Len(ret[e].responses) :
                   ret[e].responses[k] # GeneralError)
    /\ [][(\E u \in BagToSet(joined') : JoinFailed(u) /\ ~BagIn(u, joined)) =>
             /\ run_result = Pending
             /\ run_result'.kind = "Err"
             /\ ret' = ret
             /\ \E u \in BagToSet(sshs) :
                   JoinFailed(u) /\ sshs' = sshs (-) SetToBag({u})]_vars

\* run() has failed on one unit's fault while a sibling unit is still at
\* work, between its first and its second command
C9_Witness ==
    /\ run_result.kind = "Err"
    /\ \E u \in BagToSet(sshs) : u.pc = "call" /\ u.i = 1

\* C10: when a unit's join fails, run() returns GeneralError for the whole
\* invocation: main() gets no host's outcomes, not those of the hosts whose
\* units had been collected either, renders nothing and exits in failure.
C10_GeneralErrorAbortsAll ==
    /\ (\E u \in JoinedUnits : JoinFailed(u)) => run_result.kind = "Err"
    /\ run_result.kind = "Err" =>
          /\ run_result = [kind |-> "Err", error |-> GeneralError]
          /\ all_responses = <<>>
          /\ rendered = <<>>
          /\ exit_status \in {None, "failure"}
    /\ exit_status = "success" => run_result.kind = "Ok"

\* the process has exited in failure having collected one host's outcomes
C10_Witness ==
    /\ exit_status = "failure"
    /\ Len(ret) = 1
    /\ ret[1].responses # <<>>
    /\ rendered = <<>>

\* the entry run() keeps for a unit that returned, by that unit's answers alone
OwnEntry(u) == Responses(u.remote_host, ExpectedResponses(u))

\* the collected units that returned, as often as they were collected
ReturnedUnits ==
    [u \in { v \in JoinedUnits : ~JoinFailed(v) } |-> CopiesIn(u, joined)]

HasError(responses) ==
    \E k \in 1..Len(responses) : responses[k].tag # "Ok"

\* C11: a connection, run or close error of one host is recorded in that
\* host's entry only. At every moment the entries of ret are, one for one,
\* the entries the collected units' own answers give (a host's entry is a
\* function of what its own transport answered), so that the entry of a
\* host is the same whatever any other host's transport answered.
C11_ErrorsStayWithTheirHost ==
    SeqToBag(ret) = BagOfAll(OwnEntry, ReturnedUnits)

\* a host whose connection failed was collected first, then a host all of
\* whose commands succeeded and whose close succeeded
C11_Witness ==
    /\ Len(ret) = 2
    /\ Len(commands) = 2
    /\ ret[1].responses = <<SshConnectionError>>
    /\ ret[2].responses = <<OkResponse(0), OkResponse(1)>>

AnyHostError(rss) == \E e \in 1..Len(rss) : HasError(rss[e].responses)

\* C12: the exit status of the process reflects whether a host had an
\* error: once the process has exited, it exited in failure if a host of
\* what run() returned has a connection, run or close error among its
\* outcomes, and in success if none has.
C12_ExitReflectsHostErrors ==
    (exit_status # None /\ run_result.kind = "Ok") =>
        (exit_status = "failure" <=> AnyHostError(run_result.value))

\* what aggregation does: the within-host sort by index of every entry,
\* then the sort by host name
Aggregate(rss) ==
    SortHosts([e \in 1..Len(rss) |->
                  Responses(rss[e].remote_host, SortResponses(rss[e].responses))])

\* C16: aggregating what main() has aggregated leaves it as it is, for every
\* collection run() returns.
C16_AggregateIdempotent ==
    exit_status = "success" => Aggregate(all_responses) = all_responses

\* two entries, one of them ending in a close error, that main() had to
\* reorder
C16_Witness ==
    /\ exit_status = "success"
    /\ Len(ret) = 2
    /\ all_responses # ret
    /\ \E e \in 1..2 : all_responses[e].responses = <<OkResponse(0), SshCloseError>>

\* C17: a unit has one pending transport call at most, and its calls go by
\* ascending command index: the first call follows a successful connect,
\* the k-th call is for command k-1 and is made only when every call before
\* it has returned Ok, and a unit waiting in its command loop is at the
\* command after the ones that returned.
C17_SequentialCommands ==
    \A u \in AllUnits :
        LET answers == CallAnswers(u)
            indexed == Indexed(u.responses)
        IN /\ answers # <<>> => Connected(u)
           /\ \A k \in 1..Len(answers) :
                 \A j \in 1..(k - 1) : answers[j] = "ok"
           /\ \A k \in 1..Len(indexed) : indexed[k].index = k - 1
           /\ Len(indexed) =
                 Len(SelectSeq(answers, LAMBDA a : a \in {"ok", "err"}))
           /\ Len(answers) <= Len(commands)
           /\ u.pc = "call" =>
                 /\ Connected(u)
                 /\ u.i = Len(answers)
                 /\ u.i < Len(commands)
                 /\ \A k \in 1..Len(answers) : answers[k] = "ok"

\* a unit is waiting for its third command, the first two having returned
C17_Witness ==
    \E u \in BagToSet(sshs) :
        /\ u.pc = "call"
        /\ u.i = 2
        /\ CallAnswers(u) = <<"ok", "ok">>

\* the entries of a sequence of Responses that are of one host name
OfHostName(rss, name) == SelectSeq(rss, LAMBDA r : r.remote_host.host = name)

\* C20: hosts of one host name come out of main()'s sort in the order their
\* units were collected in, which is not fixed by the request: entries of
\* equal host name are in all_responses in the order they have in ret.
C20_EqualNamesKeepCollectionOrder ==
    exit_status = "success" =>
        \A e \in 1..Len(ret) :
            OfHostName(all_responses, ret[e].remote_host.host)
                = OfHostName(ret, ret[e].remote_host.host)

\* two hosts of one name and the same outcomes, requested on port 22 then
\* 2222, came out in the other order, as their units were collected
C20_Witness ==
    /\ exit_status = "success"
    /\ Len(hosts) = 2
    /\ hosts[1].host = hosts[2].host
    /\ hosts[1].port < hosts[2].port
    /\ HostsOf(all_responses) = <<hosts[2], hosts[1]>>
    /\ all_responses[1].responses = all_responses[2].responses

\* C18: when every connect, execute and close returns, every requested
\* host's unit is eventually started and run() eventually returns its
\* outcomes, for requests of fewer hosts than the cap, as many, and more.
C18_EveryHostStartsAndRunReturns ==
    /\ <>(next > Len(hosts))
    /\ <>(run_result.kind = "Ok")

\* a request of more hosts than the cap has been run to its return
C18_Witness ==
    /\ EveryCallReturns
    /\ Len(hosts) > Cap
    /\ next > Len(hosts)
    /\ run_result.kind = "Ok"
    /\ Len(run_result.value) = Len(hosts)

\* the units with a call of the transport outstanding
InFlight == { u \in BagToSet(sshs) : u.pc = "call" }

\* C19 as stated: as long as a command of a unit has not returned, run()
\* has not returned.
C19_RunNeverReturns ==
    InFlight # {} => run_result = Pending

\* C19 amended: as long as a command of a unit has not returned, the unit
\* keeps its slot, so that at most Cap - 1 other units are in progress, and
\* run() returns no outcomes: nothing is aggregated or rendered, and the one
\* way run() returns is with the GeneralError of a sibling's failed join.
C19_HungCommandHoldsSlot ==
    \A u \in InFlight :
        /\ BagCardinality(sshs (-) SetToBag({u})) <= Cap - 1
        /\ ~BagIn(u, joined)
        /\ run_result.kind # "Ok"
        /\ run_result.kind = "Err" => \E v \in JoinedUnits : JoinFailed(v)
        /\ all_responses = <<>>
        /\ rendered = <<>>
        /\ exit_status # "success"

\* of more hosts than the cap, every unit but one has returned and been
\* collected, a command of that one is outstanding, and run() is waiting
C19_Witness ==
    /\ Len(hosts) > Cap
    /\ BagCardinality(joined) = Len(hosts) - 1
    /\ Len(ret) = Len(hosts) - 1
    /\ InFlight = BagToSet(sshs)
    /\ BagCardinality(sshs) = 1
    /\ run_result = Pending

\* ------------------------------------------------------------------ C13

\* the positions of the byte b in s
Occurrences(s, b) == { k \in 1..Len(s) : s[k] = b }
Least(S) == CHOOSE x \in S : \A y \in S : x <= y
Greatest(S) == CHOOSE x \in S : \A y \in S : y <= x

\* the number a text of decimal digits writes
RECURSIVE Decimal(_)
Decimal(s) ==
    IF s = <<>> THEN 0
    ELSE 10 * Decimal(SubSeq(s, 1, Len(s) - 1)) + (s[Len(s)] - 48)

\* a port as it is written: decimal digits, a value a u16 holds
IsPortText(s) ==
    /\ s # <<>>
    /\ \A k \in 1..Len(s) : s[k] \in 48..57
    /\ Decimal(s) <= MaxPort

\* C13: parse_host_login goes by the '@' of the host spec. With none the
\* username is the value of USER, with one it is the text before it and
\* sudo is none, with two the text before the first is the username and the
\* text between them the sudo user, with more than two the result is an
\* error. The text after the last '@' is the host and the port: without ':'
\* the port is 22, with one ':' the port is the number after it, with more
\* than one the result is an error, and so it is when the host is empty.
C13_ParseBySegments ==
    cli.pc = "parsed" =>
       LET s == cli.host_login
           ats == Occurrences(s, At)
           firstAt == Least(ats)
           lastAt == IF ats = {} THEN 0 ELSE Greatest(ats)
           tail == SubSeq(s, lastAt + 1, Len(s))
           colons == Occurrences(tail, Colon)
           host == IF colons = {} THEN tail
                   ELSE SubSeq(tail, 1, Least(colons) - 1)
           portText == SubSeq(tail, Least(colons) + 1, Len(tail))
           r == cli.parsed
       IN /\ (Cardinality(ats) > 2 \/ Cardinality(colons) > 1 \/ host = <<>>)
                => r.kind = "Err"
          /\ ( /\ Cardinality(ats) <= 2
               /\ ats # {} \/ cli.env_user # NoneOf
               /\ host # <<>>
               /\ \/ colons = {}
                  \/ Cardinality(colons) = 1 /\ IsPortText(portText) )
                => r.kind = "Ok"
          /\ r.kind = "Ok" =>
                /\ IF ats = {} THEN cli.env_user = Some(r.value.username)
                   ELSE r.value.username = SubSeq(s, 1, firstAt - 1)
                /\ r.value.sudo =
                      IF Cardinality(ats) = 2
                      THEN Some(SubSeq(s, firstAt + 1, lastAt - 1))
                      ELSE NoneOf
                /\ r.value.host = host
                /\ r.value.port =
                      IF colons = {} THEN DefaultPort ELSE Decimal(portText)

\* a host spec with a login user, a sudo user, a host and a port was parsed
C13_Witness ==
    /\ cli.pc = "parsed"
    /\ cli.parsed.kind = "Ok"
    /\ cli.parsed.value.sudo # NoneOf
    /\ cli.parsed.value.username # <<>>
    /\ cli.parsed.value.port # DefaultPort

\* ------------------------------------------------------------------ C14

\* a chunk without the whitespace around it, by the positions of the bytes
\* that are not whitespace
Trimmed(data) ==
    LET solid == { k \in 1..Len(data) : ~IsWhitespace(data[k]) }
    IN IF solid = {} THEN <<>>
       ELSE SubSeq(data, Least(solid), Greatest(solid))

\* the trimmed chunks of the messages of one type, joined in arrival order
RECURSIVE Joined(_, _)
Joined(msgs, type) ==
    IF msgs = <<>> THEN <<>>
    ELSE LET m == msgs[Len(msgs)]
             before == Joined(SubSeq(msgs, 1, Len(msgs) - 1), type)
         IN IF m.type = type THEN before \o Trimmed(m.data) ELSE before

\* a message whose chunk is no UTF-8 text
BadChunk(m) == m.type \in {"Data", "ExtendedData"} /\ ~Utf8(m.data)

ExitStatuses(msgs) == SelectSeq(msgs, LAMBDA m : m.type = "ExitStatus")

\* the message loop of the call was entered
Waited ==
    \/ chan.pc = "wait"
    \/ chan.pc = "returned" /\ chan.result # [kind |-> "Err", error |-> "exec"]

\* C14: a call whose channel has closed returns the error "No exit code"
\* when no ExitStatus message came, and otherwise stdout as the trimmed
\* Data chunks joined in arrival order, stderr as the trimmed ExtendedData
\* chunks joined in arrival order and the exit code of the last ExitStatus
\* message; a chunk that is no UTF-8 text ends the call with an error at
\* that message: no message is read after it.
C14_CallResult ==
    Waited =>
       LET msgs == chan.msgs
           bad == { k \in 1..Len(msgs) : BadChunk(msgs[k]) }
           codes == ExitStatuses(msgs)
       IN /\ bad \subseteq {Len(msgs)}
          /\ bad # {} =>
                /\ chan.pc = "returned"
                /\ chan.result = [kind |-> "Err", error |-> "Utf8Error"]
          /\ (bad = {} /\ chan.pc = "returned") =>
                IF codes = <<>>
                THEN chan.result = [kind |-> "Err", error |-> "No exit code"]
                ELSE chan.result =
                        [kind |-> "Ok",
                         out |-> Joined(msgs, "Data"),
                         err |-> Joined(msgs, "ExtendedData"),
                         code |-> Some(codes[Len(codes)].exit_status)]

\* a call returned Ok after a chunk that trimming shortened and two
\* ExitStatus messages with different exit codes
C14_Witness ==
    /\ chan.pc = "returned"
    /\ chan.result.kind = "Ok"
    /\ \E k \in 1..Len(chan.msgs) :
          /\ chan.msgs[k].type = "Data"
          /\ Trimmed(chan.msgs[k].data) \notin {<<>>, chan.msgs[k].data}
    /\ \E j, k \in 1..Len(chan.msgs) :
          /\ j < k
          /\ chan.msgs[j].type = "ExitStatus"
          /\ chan.msgs[k].type = "ExitStatus"
          /\ chan.msgs[j].exit_status # chan.msgs[k].exit_status

\* ------------------------------------------------------------------ C15

\* C15: the command handed to the channel is decided by the host's sudo
\* user and the escalation password the caller supplied, also in a call
\* made by run(): with both, the password is piped into the sudo invocation
\* for that user; with a sudo user only, the command is prefixed with the
\* sudo invocation; without a sudo user, the command goes out unchanged.
C15_DispatchBySudoAndPassword ==
    chan.pc \in {"wait", "returned"} =>
       chan.exec =
          Some(IF chan.sudo # NoneOf /\ chan.supplied # NoneOf
               THEN <<"echo ", chan.supplied[1], " | sudo -u ", chan.sudo[1],
                      " -S  ", chan.command>>
               ELSE IF chan.sudo # NoneOf
               THEN <<"sudo -u ", chan.sudo[1], " ", chan.command>>
               ELSE <<chan.command>>)

====
